---- MODULE Spec2Model ----
(***************************************************************************)
(* FlexPhone SIP service (src/src/services/SIPService.js): the session     *)
(* registration state, the active-call map, the call history and the       *)
(* asynchronous handlers connect, disconnect, makeCall, answerCall,        *)
(* hangupCall, sendDTMF, simulateIncomingCall and the timers they set,     *)
(* and the call history store of the main process (src/unnamed/part_009,   *)
(* src/unnamed/part_007) that the renderer reads.                          *)
(*                                                                         *)
(* Every async handler is split at its await points: the action named      *)
(* after the handler runs the code up to the first await, and the          *)
(* "...Resume" action runs the continuation.  An await on an already       *)
(* settled promise resumes from the microtask queue, in FIFO order and      *)
(* before any timer callback; an await on a timer resumes as a macrotask.   *)
(***************************************************************************)
EXTENDS Integers, Sequences, FiniteSets, Bags, TLC

\* ---------------------------------------------------------------- bounds
MaxCalls == 2        \* calls ever created (call ids 1..MaxCalls)
MaxTime == 1         \* the clock runs 0..MaxTime
MaxTasks == 2        \* handler invocations suspended at an await at once
MaxDigits == 2       \* longest digit string passed to sendDTMF
MaxInTransit == 1    \* invocations and messages in transit when the renderer issues a command

\* ------------------------------------------------------------- constants
Null == -1                          \* a null time stamp
NoId == 0                           \* "no call id" in results and events

CallIds == 1..MaxCalls

\* this.sipProviders: provider id -> defaultServer
sipProviders ==
    [p \in {"FLEXPBX", "CALLCENTRIC", "VOIPMS", "TWILIO", "GOOGLE_VOICE", "CUSTOM"} |->
        CASE p = "FLEXPBX" -> "flexpbx.local"
          [] p = "CALLCENTRIC" -> "sip.callcentric.com"
          [] p = "VOIPMS" -> "server.voip.ms"
          [] p = "TWILIO" -> "edge.twilio.com"
          [] p = "GOOGLE_VOICE" -> "voice.google.com"
          [] OTHER -> ""]

\* Property names that this.sipProviders, an object literal, inherits from
\* Object.prototype: this.sipProviders[name] is a truthy value without
\* defaultServer.
inheritedKeys == {"constructor"}

\* Configurations handed to connect; "" stands for a missing or empty field.
Configs ==
    [provider : {"", "FLEXPBX", "CUSTOM", "NOSUCH"},
     server : {"", "sip.example.com"},
     username : {"", "alice"},
     password : {"", "secret"}]

\* this.currentConfig = null
NullConfig == [provider |-> "null", server |-> "null", username |-> "null", password |-> "null"]

\* Numbers handed to makeCall and simulateIncomingCall.
Numbers == {"5551234"}

\* Digit strings handed to sendDTMF: every string over the alphabet up to MaxDigits.
DigitAlphabet == {"1", "X"}
DigitStrings == UNION {[1..n -> DigitAlphabet] : n \in 0..MaxDigits}

VARIABLES
    isConnected,        \* this.isConnected
    currentConfig,      \* this.currentConfig
    registrationState,  \* this.registrationState
    calls,              \* the call objects ever created, by id
    nextId,             \* the next fresh call id (generateCallId)
    activeCalls,        \* this.activeCalls: the ids in Map insertion order
    callHistory,        \* this.callHistory: snapshots of ended calls
    timers,             \* pending setTimeout callbacks: <<kind, callId>>
    micro,              \* continuations queued on the microtask queue (FIFO)
    tasks,              \* continuations waiting on a timer (a bag)
    now,                \* the clock read by new Date()
    last,               \* the handler step that ran last: its name and call id
    ret,                \* the result the last step returned, or NoRet
    emitted,            \* the events the last step emitted, in order
    dispatched,         \* the DTMF digits the last step dispatched
    callHistoryService, \* callHistoryService.callHistory, read by 'history-get-calls'
    mainWindow,         \* the main process has its window (this.mainWindow is not null)
    ipc,                \* messages sent to the renderer and not yet received, in order
    currentCall,        \* the renderer's this.currentCall
    rendererConnected,  \* the renderer's this.isConnected
    windowId,           \* the windows created so far; the window of this.mainWindow is the latest
    rendererReady,      \* the page of the window has built FlexPhoneApp (window.flexPhoneApp)
    toMain,             \* invocations the renderer sent that have not arrived in the main process
    historyFile         \* what data/call-history.json holds

vars == <<isConnected, currentConfig, registrationState, calls, nextId, activeCalls,
          callHistory, timers, micro, tasks, now, last, ret, emitted, dispatched,
          callHistoryService, mainWindow, ipc, currentCall, rendererConnected, windowId,
          rendererReady, toMain, historyFile>>

\* ---------------------------------------------------------------- helpers
NoRet == [op |-> "none", id |-> NoId, success |-> FALSE, error |-> ""]
Ok(op, id) == [op |-> op, id |-> id, success |-> TRUE, error |-> ""]
Fail(op, id, msg) == [op |-> op, id |-> id, success |-> FALSE, error |-> msg]

Step(op, id) == [op |-> op, id |-> id]
\* A step that resumed from the await of a call that returned `ok` as its success.
Resumed(op, id, ok) == [op |-> op, id |-> id, ok |-> ok]

\* An emitted event: its name and what it carries (the call id, the digit
\* string of dtmf-sent, the config of connected), and whether a listener of it
\* threw.
Ev(name, id) == [name |-> name, id |-> id, digits |-> <<>>, cfg |-> NullConfig, threw |-> FALSE]
\* dtmf-sent carries the call id and the digit string.
DTMFSent(id, digits) == [Ev("dtmf-sent", id) EXCEPT !.digits = digits]
\* connected carries provider, server and username of the sipConfig of its connect.
Connected(cfg) == [Ev("connected", NoId) EXCEPT !.cfg = cfg]
\* emit(e) with a listener that throws.
Threw(e) == [e EXCEPT !.threw = TRUE]

\* Who awaits the promise of a handler: the async frames that wait for it,
\* innermost first.  Nobody for a caller that drops the promise (a timer
\* callback, before-quit); the loop of disconnect (line 166); the ipcMain
\* handler `return await this.sipService.x()`, invoked by the renderer of
\* window `w`.
Nobody == <<>>
DisconnectFrame == [f |-> "disconnect", w |-> 0]
IpcFrame(w) == [f |-> "ipc", w |-> w]

\* A continuation: the handler, the locals it captured, and who awaits the
\* promise of the handler.
Task(k, id) == [k |-> k, id |-> id, awaiter |-> Nobody]
AwaitedBy(t, a) == [t EXCEPT !.awaiter = a]
\* connect captures sipConfig; `n` is the number of connects invoked earlier
\* that still wait for their registration (their timers, set earlier with the
\* same delays, fire first); `reg` records whether a session was registered
\* when connect was invoked (a history field, read by no action).
ConnectTask(cfg, reg, n) ==
    [k |-> "connect", id |-> NoId, awaiter |-> Nobody, cfg |-> cfg, reg |-> reg, n |-> n]
\* sendDTMF waiting 100 ms (line 331): activeCall, digits and the position `i`
\* of the digit its loop turns to next.
DTMFTask(id, digits, i) ==
    [k |-> "sendDTMF", id |-> id, awaiter |-> Nobody, digits |-> digits, i |-> i]
\* sendDTMF at `await this.simulateDTMFTone(digit)` (line 330) for the digit at
\* position `i`: the promise of the tone is fulfilled, or rejected (`failed`).
ToneTask(id, digits, i, failed) ==
    [k |-> "tone", id |-> id, awaiter |-> Nobody, digits |-> digits, i |-> i, failed |-> failed]
\* disconnect at `await this.hangupCall(callId)` (line 166) when the promise of
\* hangupCall has resolved: the callId of the loop, and the success `ok` of the
\* result (which the loop drops).
DisconnectTask(id, ok, a) == [k |-> "disconnect", id |-> id, awaiter |-> a, ok |-> ok]
\* The ipcMain handler at `return await this.sipService.x()` when the promise
\* of the service has resolved with `r`; `w` is the window that invoked it.
HandlerTask(r, w) == [k |-> "handler", id |-> r.id, r |-> r, w |-> w]
\* The promise of the ipcMain handler has resolved with `r`: Electron, which
\* awaits it, sends the result to the renderer that invoked the handler.
ReplyTask(r, w) == [k |-> "reply", id |-> r.id, r |-> r, w |-> w]

\* What the return of a handler with result `r` queues: the continuation of
\* the frame that awaits it.
Returned(a, r) ==
    IF a = Nobody THEN <<>>
    ELSE IF Head(a).f = "ipc" THEN <<HandlerTask(r, Head(a).w)>>
    ELSE <<DisconnectTask(r.id, r.success, Tail(a))>>

One(t) == SetToBag({t})
Pending == BagToSet(tasks)
\* The connects that wait for their registration.
Connecting == {t \in Pending : t.k = "connect"}
\* The tasks left when the connect `t` has resumed: every later connect moves up.
MoveUp(u) == IF u.k = "connect" THEN [u EXCEPT !.n = @ - 1] ELSE u
Dequeue(t) ==
    LET rest == tasks (-) One(t) IN
        [v \in {MoveUp(u) : u \in BagToSet(rest)} |->
            rest[CHOOSE u \in BagToSet(rest) : MoveUp(u) = v]]
Room == Len(micro) + BagCardinality(tasks) < MaxTasks
\* Timer callbacks are macrotasks: they run only once the microtask queue is drained.
Drained == micro = <<>>

Has(callId) == \E i \in 1..Len(activeCalls) : activeCalls[i] = callId      \* activeCalls.has / get
Delete(callId) == SelectSeq(activeCalls, LAMBDA c : c # callId)            \* activeCalls.delete

\* The not-yet-created call objects.
NoCall == [id |-> NoId, status |-> "none", direction |-> "none", remoteNumber |-> "",
           localNumber |-> "", provider |-> "", startTime |-> Null, connectTime |-> Null, endTime |-> Null,
           duration |-> 0]

\* validateConfig(config): the error string, "" when valid.
validateConfig(config) ==
    IF config.provider = "" THEN "Provider is required"
    ELSE IF config.provider \notin DOMAIN sipProviders \cup inheritedKeys THEN "Unknown provider"
    ELSE IF config.username = "" THEN "Username is required"
    ELSE IF config.password = "" THEN "Password is required"
    ELSE IF config.provider = "CUSTOM" /\ config.server = "" THEN "Server is required for custom provider"
    ELSE ""

\* connect: the sipConfig built from a valid config and the provider defaults.
sipConfigOf(config) ==
    [provider |-> config.provider,
     server |-> IF config.server # "" THEN config.server
                ELSE IF config.provider \in DOMAIN sipProviders THEN sipProviders[config.provider]
                ELSE "",
     username |-> config.username,
     password |-> config.password]

\* ------------------------------------------------------ to the renderer
\* The events setupServiceEventForwarding sends on to the window.
forwardedEvents == {"connected", "disconnected", "incoming-call", "call-answered", "call-ended"}

\* A message to the renderer: a forwarded event, or the result of an invoked handler.
EventMsg(e) == [kind |-> "event", name |-> e.name, id |-> e.id, success |-> TRUE]
ReplyMsg(r) == [kind |-> "reply", name |-> r.op, id |-> r.id, success |-> r.success]

RECURSIVE EventMsgs(_)
EventMsgs(evs) ==
    IF evs = <<>> THEN <<>>
    ELSE (IF Head(evs).name \in forwardedEvents THEN <<EventMsg(Head(evs))>> ELSE <<>>)
            \o EventMsgs(Tail(evs))

\* The events of a step whose listeners all returned.
Heard(evs) == SelectSeq(evs, LAMBDA e : ~e.threw)

\* What a step of the service sends to the renderer: this.mainWindow?.webContents
\* .send, inside emit, for every forwarded event the step emitted; nothing
\* while there is no window.  emit stops at the listener that throws: the
\* event is sent when the forwarder was registered before that listener, and
\* it is not sent when the forwarder comes after it or is the one that throws.
forwarded ==
    /\ ipc' \in IF mainWindow
                THEN {ipc \o EventMsgs(emitted'), ipc \o EventMsgs(Heard(emitted'))}
                ELSE {ipc}
    /\ UNCHANGED <<mainWindow, windowId, currentCall, rendererConnected, rendererReady>>

\* A step of the service that no invocation of the renderer started.
toRenderer ==
    /\ forwarded
    /\ UNCHANGED toMain

\* A handler awaited by `a` has started: when `a` is an ipcMain handler, the
\* invocation it runs for has arrived.
invoked(a) ==
    toMain' = IF a # Nobody /\ Head(a).f = "ipc" THEN Tail(toMain) ELSE toMain

\* ----------------------------------------------------- the history file
\* The records the store holds at most.
MaxStored == 3
\* The ids of calls of earlier runs of the application.
OldCallIds == {101, 102}

\* A record of data/call-history.json, or one handed to addCall.
StoredCall(id) ==
    [NoCall EXCEPT !.id = id, !.status = "completed", !.direction = "inbound",
                   !.remoteNumber = "5551234", !.startTime = 0, !.connectTime = 0, !.endTime = 0]

\* What data/call-history.json holds: whether JSON.parse accepts it, the
\* records it then yields, and how long it is (in records, the brackets of the
\* array counted as one).
Json(records) == [parses |-> TRUE, records |-> records, size |-> Len(records) + 1]
\* No file, or a file with nothing in it: what opening the file for writing leaves.
NoData == [parses |-> FALSE, records |-> <<>>, size |-> 0]
\* The bytes of two writes, one over the head of the other.
Torn(size) == [parses |-> FALSE, records |-> <<>>, size |-> size]
\* The file after `records` were written from its start: they replace what
\* is there when they are at least as long, and leave its tail otherwise.
Overlay(records, file) ==
    IF Len(records) + 1 >= file.size THEN Json(records) ELSE Torn(file.size)
\* loadHistory lines 177-185: JSON.parse of what was read, [] when it throws.
Parsed(file) == IF file.parses THEN file.records ELSE <<>>

\* What data/call-history.json holds when the application starts: nothing
\* (or no file), or the calls of earlier runs.
HistoryFiles == {NoData, Json(<<StoredCall(101), StoredCall(102)>>)}

\* The records handed to addCall.
LoggedCalls == {StoredCall(103)}

Init ==
    /\ isConnected = FALSE
    /\ currentConfig = NullConfig
    /\ registrationState = "unregistered"
    /\ calls = [c \in CallIds |-> NoCall]
    /\ nextId = 1
    /\ activeCalls = <<>>
    /\ callHistory = <<>>
    /\ timers = {}
    /\ micro = <<>>
    /\ tasks = EmptyBag
    /\ now = 0
    /\ last = Step("init", NoId)
    /\ ret = NoRet
    /\ emitted = <<>>
    /\ dispatched = <<>>
    /\ callHistoryService = <<>>
    /\ mainWindow = FALSE
    /\ ipc = <<>>
    /\ currentCall = NoId
    /\ rendererConnected = FALSE
    /\ windowId = 0
    /\ rendererReady = FALSE
    /\ toMain = <<>>
    /\ historyFile \in HistoryFiles

\* The application started with no call history on the disk.
Started == Init /\ historyFile = NoData

\* ------------------------------------------------------------------ clock
Tick ==
    /\ now < MaxTime
    /\ now' = now + 1
    /\ UNCHANGED <<isConnected, currentConfig, registrationState, calls, nextId, activeCalls,
                   callHistory, timers, micro, tasks, last, ret, emitted, dispatched,
                   callHistoryService, mainWindow, ipc, currentCall, rendererConnected, windowId,
                   rendererReady, toMain, historyFile>>

\* ---------------------------------------------------------------- connect
\* connect(config), awaited by `a`, up to `await
\* this.simulateSIPRegistration(sipConfig)`; a config that fails validation
\* goes straight to the catch block, which returns.
connectBy(config, a) ==
    /\ last' = Step("connect", NoId)
    /\ dispatched' = <<>>
    /\ IF validateConfig(config) # ""
       THEN /\ a # Nobody => Room
            /\ isConnected' = FALSE
            /\ registrationState' = "failed"
            /\ emitted' = <<Ev("connection-failed", NoId)>>
            /\ ret' = Fail("connect", NoId, validateConfig(config))
            /\ micro' = micro \o Returned(a, ret')
            /\ UNCHANGED <<currentConfig, tasks>>
       ELSE /\ Room
            /\ currentConfig' = sipConfigOf(config)
            /\ tasks' = tasks (+) One(AwaitedBy(ConnectTask(sipConfigOf(config), isConnected,
                                                            Cardinality(Connecting)), a))
            /\ emitted' = <<>>
            /\ ret' = NoRet
            /\ UNCHANGED <<isConnected, registrationState, micro>>
    /\ UNCHANGED <<calls, nextId, activeCalls, callHistory, timers, now, callHistoryService, historyFile>>
    /\ forwarded /\ invoked(a)

\* connect(config) called from outside the service.
connect(config) ==
    connectBy(config, Nobody)

\* connect after the simulated registration completed (it always succeeds).
connectResume(t) ==
    /\ Drained
    /\ t \in Connecting /\ t.n = 0
    /\ tasks' = Dequeue(t)
    /\ isConnected' = TRUE
    /\ registrationState' = "registered"
    /\ emitted' = <<Connected(t.cfg)>>
    /\ ret' = Ok("connect", NoId)
    /\ micro' = Returned(t.awaiter, ret')
    /\ last' = Step("connectResume", NoId)
    /\ dispatched' = <<>>
    /\ UNCHANGED <<currentConfig, calls, nextId, activeCalls, callHistory, timers, now, callHistoryService, historyFile>>
    /\ toRenderer

\* ------------------------------------------------------------- hangupCall
\* An ended call whose duration runs from startTime.
ended_sinceStart(call) ==
    [call EXCEPT !.status = "ended",
                 !.endTime = now,
                 !.duration = now - call.startTime]

\* hangupCall lines 286-291: mark the call ended and compute its duration.
ended(call) ==
    [call EXCEPT !.status = "ended",
                 !.endTime = now,
                 !.duration = IF call.connectTime # Null THEN now - call.connectTime ELSE @]

\* hangupCall(callId), awaited by `a`, up to `await this.cleanupCallAudio(call)`;
\* an id that is not in activeCalls goes to the catch block, which returns.
hangupCallBy(callId, a) ==
    /\ last' = Step("hangupCall", callId)
    /\ emitted' = <<>>
    /\ dispatched' = <<>>
    /\ IF ~Has(callId)
       THEN /\ a # Nobody => Room
            /\ ret' = Fail("hangupCall", callId, "Call not found")
            /\ micro' = micro \o Returned(a, ret')
            /\ UNCHANGED calls
       ELSE /\ Room
            /\ calls' = [calls EXCEPT ![callId] = ended(@)]
            /\ micro' = Append(micro, AwaitedBy(Task("hangup", callId), a))
            /\ ret' = NoRet
    /\ UNCHANGED <<isConnected, currentConfig, registrationState, nextId, activeCalls,
                   callHistory, timers, tasks, now, callHistoryService, historyFile>>
    /\ forwarded /\ invoked(a)

\* hangupCall(callId) called from outside the service.
hangupCall(callId) ==
    hangupCallBy(callId, Nobody)

\* hangupCall lines 296-308: snapshot into the history, delete, emit, return;
\* the return resolves the promise that the caller awaits.
hangupCallResume ==
    /\ micro # <<>> /\ Head(micro).k = "hangup"
    /\ LET callId == Head(micro).id IN
        /\ callHistory' = Append(callHistory, calls[callId])
        /\ activeCalls' = Delete(callId)
        /\ emitted' = <<Ev("call-ended", callId)>>
        /\ ret' = Ok("hangupCall", callId)
        /\ last' = Step("hangupCallResume", callId)
    /\ micro' = Tail(micro) \o Returned(Head(micro).awaiter, ret')
    /\ dispatched' = <<>>
    /\ UNCHANGED <<isConnected, currentConfig, registrationState, calls, nextId, timers,
                   tasks, now, callHistoryService, historyFile>>
    /\ toRenderer

\* ------------------------------------------------------------- disconnect
\* disconnect lines 169-183, reached when the loop over activeCalls is exhausted.
\* `evs` are the events the step emitted before.
disconnectDone(evs) ==
    /\ isConnected' = FALSE
    /\ registrationState' = "unregistered"
    /\ currentConfig' = NullConfig
    /\ emitted' = Append(evs, Ev("disconnected", NoId))
    /\ ret' = Ok("disconnect", NoId)

\* disconnect(), awaited by `a`, up to the first `await this.hangupCall(callId)`,
\* which itself runs up to its `await this.cleanupCallAudio(call)`.
disconnectBy(a) ==
    /\ last' = Step("disconnect", NoId)
    /\ dispatched' = <<>>
    /\ IF ~isConnected
       THEN /\ a # Nobody => Room
            /\ ret' = Ok("disconnect", NoId)
            /\ emitted' = <<>>
            /\ micro' = micro \o Returned(a, ret')
            /\ UNCHANGED <<isConnected, currentConfig, registrationState, calls>>
       ELSE IF activeCalls = <<>>
       THEN /\ a # Nobody => Room
            /\ disconnectDone(<<>>)
            /\ micro' = micro \o Returned(a, ret')
            /\ UNCHANGED calls
       ELSE /\ Room
            /\ calls' = [calls EXCEPT ![Head(activeCalls)] = ended(@)]
            /\ micro' = Append(micro, AwaitedBy(Task("hangup", Head(activeCalls)), <<DisconnectFrame>> \o a))
            /\ emitted' = <<>>
            /\ ret' = NoRet
            /\ UNCHANGED <<isConnected, currentConfig, registrationState>>
    /\ UNCHANGED <<nextId, activeCalls, callHistory, timers, tasks, now, callHistoryService, historyFile>>
    /\ forwarded /\ invoked(a)

\* disconnect() called from outside the service.
disconnect ==
    disconnectBy(Nobody)

\* A loop of disconnect that ends at the first hangupCall that returned a failure.
toHangup_untilFailure(rest, hangupOk) == IF hangupOk THEN rest ELSE <<>>

\* disconnect lines 165-167: the calls the loop still turns to when the awaited
\* hangupCall has returned; its result is dropped.
toHangup(rest, hangupOk) == rest

\* disconnect resumes from `await this.hangupCall(callId)`: the Map iterator
\* yields the next entry of activeCalls and hangupCall runs up to its await, or
\* the loop ends and the state is cleared (lines 169-183).  Every entry the
\* iterator has passed is deleted by now and every entry added since follows
\* them, so the next entry is the first one of the Map.
disconnectResume ==
    /\ micro # <<>> /\ Head(micro).k = "disconnect"
    /\ LET t == Head(micro)
           todo == toHangup(activeCalls, t.ok)
       IN
        IF todo = <<>>
        THEN /\ disconnectDone(<<>>)
             /\ micro' = Tail(micro) \o Returned(t.awaiter, ret')
             /\ UNCHANGED calls
        ELSE /\ calls' = [calls EXCEPT ![Head(todo)] = ended(@)]
             /\ micro' = Append(Tail(micro), AwaitedBy(Task("hangup", Head(todo)), <<DisconnectFrame>> \o t.awaiter))
             /\ emitted' = <<>>
             /\ ret' = NoRet
             /\ UNCHANGED <<isConnected, currentConfig, registrationState>>
    /\ last' = Resumed("disconnectResume", Head(micro).id, Head(micro).ok)
    /\ dispatched' = <<>>
    /\ UNCHANGED <<nextId, activeCalls, callHistory, timers, tasks, now, callHistoryService, historyFile>>
    /\ toRenderer

\* --------------------------------------------------------------- makeCall
\* The call object built by makeCall (lines 201-213) and simulateIncomingCall
\* (lines 387-399).
newCall(direction, number, status) ==
    [id |-> nextId, status |-> status, direction |-> direction, remoteNumber |-> number,
     localNumber |-> currentConfig.username, provider |-> currentConfig.provider,
     startTime |-> now, connectTime |-> Null, endTime |-> Null, duration |-> 0]

\* makeCall(number), awaited by `a`, up to `await
\* this.simulateCallConnection(call)`, which sets the two progress timers.
\* Reading this.currentConfig.username while currentConfig is null throws a
\* TypeError that the catch block reports.
makeCallBy(number, a) ==
    /\ dispatched' = <<>>
    /\ emitted' = <<>>
    /\ IF ~isConnected \/ currentConfig = NullConfig
       THEN /\ a # Nobody => Room
            /\ ret' = Fail("makeCall", NoId,
                           IF ~isConnected THEN "Not connected to SIP server" ELSE "TypeError")
            /\ last' = Step("makeCall", NoId)
            /\ micro' = micro \o Returned(a, ret')
            /\ UNCHANGED <<calls, nextId, activeCalls, timers>>
       ELSE /\ nextId <= MaxCalls
            /\ Room
            /\ calls' = [calls EXCEPT ![nextId] = newCall("outbound", number, "connecting")]
            /\ activeCalls' = Append(activeCalls, nextId)
            /\ timers' = timers \cup {<<"ringing", nextId>>, <<"connected", nextId>>}
            /\ micro' = Append(micro, AwaitedBy(Task("makeCall", nextId), a))
            /\ nextId' = nextId + 1
            /\ ret' = NoRet
            /\ last' = Step("makeCall", nextId)
    /\ UNCHANGED <<isConnected, currentConfig, registrationState, callHistory, tasks, now, callHistoryService, historyFile>>
    /\ forwarded /\ invoked(a)

\* makeCall(number) called from outside the service.
makeCall(number) ==
    makeCallBy(number, Nobody)

\* makeCall lines 222-228: emit call-initiated and return the call id.
makeCallResume ==
    /\ micro # <<>> /\ Head(micro).k = "makeCall"
    /\ emitted' = <<Ev("call-initiated", Head(micro).id)>>
    /\ ret' = Ok("makeCall", Head(micro).id)
    /\ last' = Step("makeCallResume", Head(micro).id)
    /\ micro' = Tail(micro) \o Returned(Head(micro).awaiter, ret')
    /\ dispatched' = <<>>
    /\ UNCHANGED <<isConnected, currentConfig, registrationState, calls, nextId, activeCalls,
                   callHistory, timers, tasks, now, callHistoryService, historyFile>>
    /\ toRenderer

\* simulateCallConnection, the 1000 ms timer (lines 369-373).
ringingTimer(callId) ==
    /\ Drained
    /\ <<"ringing", callId>> \in timers
    /\ timers' = timers \ {<<"ringing", callId>>}
    /\ calls' = [calls EXCEPT ![callId].status = "ringing"]
    /\ emitted' = <<Ev("call-ringing", callId)>>
    /\ last' = Step("ringingTimer", callId)
    /\ ret' = NoRet
    /\ dispatched' = <<>>
    /\ UNCHANGED <<isConnected, currentConfig, registrationState, nextId, activeCalls,
                   callHistory, micro, tasks, now, callHistoryService, historyFile>>
    /\ toRenderer

\* simulateCallConnection, the 3000 ms timer (lines 375-380); it fires after
\* the 1000 ms timer of the same call.
connectedTimer(callId) ==
    /\ Drained
    /\ <<"connected", callId>> \in timers
    /\ <<"ringing", callId>> \notin timers
    /\ timers' = timers \ {<<"connected", callId>>}
    /\ calls' = [calls EXCEPT ![callId].status = "connected", ![callId].connectTime = now]
    /\ emitted' = <<Ev("call-connected", callId)>>
    /\ last' = Step("connectedTimer", callId)
    /\ ret' = NoRet
    /\ dispatched' = <<>>
    /\ UNCHANGED <<isConnected, currentConfig, registrationState, nextId, activeCalls,
                   callHistory, micro, tasks, now, callHistoryService, historyFile>>
    /\ toRenderer

\* ------------------------------------------------------------- answerCall
\* answerCall without the check of the status (line 246).
answerable_anyStatus(callId) == Has(callId)

\* answerCall lines 241-248: the call is found and is ringing.
answerable(callId) == Has(callId) /\ calls[callId].status = "ringing"

\* answerCall(callId), awaited by `a`, up to `await this.initializeCallAudio(call)`.
answerCallBy(callId, a) ==
    /\ last' = Step("answerCall", callId)
    /\ emitted' = <<>>
    /\ dispatched' = <<>>
    /\ IF answerable(callId)
       THEN /\ Room
            /\ calls' = [calls EXCEPT ![callId].status = "connected", ![callId].connectTime = now]
            /\ micro' = Append(micro, AwaitedBy(Task("answerCall", callId), a))
            /\ ret' = NoRet
       ELSE /\ a # Nobody => Room
            /\ ret' = Fail("answerCall", callId,
                           IF Has(callId) THEN "Cannot answer call in state" ELSE "Call not found")
            /\ micro' = micro \o Returned(a, ret')
            /\ UNCHANGED calls
    /\ UNCHANGED <<isConnected, currentConfig, registrationState, nextId, activeCalls,
                   callHistory, timers, tasks, now, callHistoryService, historyFile>>
    /\ forwarded /\ invoked(a)

\* answerCall(callId) called from outside the service.
answerCall(callId) ==
    answerCallBy(callId, Nobody)

\* answerCall lines 258-266: emit call-answered and return.
answerCallResume ==
    /\ micro # <<>> /\ Head(micro).k = "answerCall"
    /\ emitted' = <<Ev("call-answered", Head(micro).id)>>
    /\ ret' = Ok("answerCall", Head(micro).id)
    /\ last' = Step("answerCallResume", Head(micro).id)
    /\ micro' = Tail(micro) \o Returned(Head(micro).awaiter, ret')
    /\ dispatched' = <<>>
    /\ UNCHANGED <<isConnected, currentConfig, registrationState, calls, nextId, activeCalls,
                   callHistory, timers, tasks, now, callHistoryService, historyFile>>
    /\ toRenderer

\* --------------------------------------------------- simulateIncomingCall
\* simulateIncomingCall(fromNumber): the whole function; it has no await.  With
\* currentConfig null the read of currentConfig.username throws and the
\* returned promise rejects before anything is created.
simulateIncomingCall(fromNumber) ==
    /\ dispatched' = <<>>
    /\ IF currentConfig = NullConfig
       THEN /\ ret' = Fail("simulateIncomingCall", NoId, "TypeError")
            /\ last' = Step("simulateIncomingCall", NoId)
            /\ emitted' = <<>>
            /\ UNCHANGED <<calls, nextId, activeCalls, timers>>
       ELSE /\ nextId <= MaxCalls
            /\ calls' = [calls EXCEPT ![nextId] = newCall("inbound", fromNumber, "ringing")]
            /\ activeCalls' = Append(activeCalls, nextId)
            /\ timers' = timers \cup {<<"autoHangup", nextId>>}
            /\ nextId' = nextId + 1
            /\ emitted' = <<Ev("incoming-call", nextId)>>
            /\ ret' = Ok("simulateIncomingCall", nextId)
            /\ last' = Step("simulateIncomingCall", nextId)
    /\ UNCHANGED <<isConnected, currentConfig, registrationState, callHistory, micro, tasks, now, callHistoryService, historyFile>>
    /\ toRenderer

\* A 30 s timer that hangs up the call whatever its status (line 409 without
\* `call.status === 'ringing'`).
autoHangupTimer_anyStatus(callId) ==
    /\ Drained
    /\ <<"autoHangup", callId>> \in timers
    /\ timers' = timers \ {<<"autoHangup", callId>>}
    /\ IF Has(callId)
       THEN /\ Room
            /\ calls' = [calls EXCEPT ![callId] = ended(@)]
            /\ micro' = Append(micro, Task("hangup", callId))
       ELSE UNCHANGED <<calls, micro>>
    /\ last' = Step("autoHangupTimer", callId)
    /\ ret' = NoRet
    /\ emitted' = <<>>
    /\ dispatched' = <<>>
    /\ UNCHANGED <<isConnected, currentConfig, registrationState, nextId, activeCalls,
                   callHistory, tasks, now, callHistoryService, historyFile>>
    /\ toRenderer

\* The 30 s auto-hangup timer (lines 408-412): hangupCall(callId) up to its
\* await when the call is still active and ringing, nothing otherwise.
autoHangupTimer(callId) ==
    /\ Drained
    /\ <<"autoHangup", callId>> \in timers
    /\ timers' = timers \ {<<"autoHangup", callId>>}
    /\ IF Has(callId) /\ calls[callId].status = "ringing"
       THEN /\ Room
            /\ calls' = [calls EXCEPT ![callId] = ended(@)]
            /\ micro' = Append(micro, Task("hangup", callId))
       ELSE UNCHANGED <<calls, micro>>
    /\ last' = Step("autoHangupTimer", callId)
    /\ ret' = NoRet
    /\ emitted' = <<>>
    /\ dispatched' = <<>>
    /\ UNCHANGED <<isConnected, currentConfig, registrationState, nextId, activeCalls,
                   callHistory, tasks, now, callHistoryService, historyFile>>
    /\ toRenderer

\* --------------------------------------------------------------- sendDTMF
\* simulateDTMFTone(digit), called by sendDTMF(digits) for the call it picked:
\* one dispatched digit.
Tone(digit, callId, digits) == [digit |-> digit, id |-> callId, of |-> digits, failed |-> FALSE]
\* simulateDTMFTone(digit) that throws (an audio context that fails).
FailedTone(digit, callId, digits) == [Tone(digit, callId, digits) EXCEPT !.failed = TRUE]

\* sendDTMF(digits), awaited by `a`, up to `await this.simulateDTMFTone(digit)`
\* (line 330) for the first digit: the first active call is picked and the
\* digit is dispatched.  An empty string skips the loop and returns at once.
sendDTMFBy(digits, a) ==
    /\ IF activeCalls = <<>>
       THEN /\ a # Nobody => Room
            /\ ret' = Fail("sendDTMF", NoId, "No active calls")
            /\ last' = Step("sendDTMF", NoId)
            /\ emitted' = <<>>
            /\ dispatched' = <<>>
            /\ micro' = micro \o Returned(a, ret')
       ELSE IF digits = <<>>
       THEN /\ a # Nobody => Room
            /\ ret' = Ok("sendDTMF", Head(activeCalls))
            /\ last' = Step("sendDTMF", Head(activeCalls))
            /\ emitted' = <<DTMFSent(Head(activeCalls), digits)>>
            /\ dispatched' = <<>>
            /\ micro' = micro \o Returned(a, ret')
       ELSE /\ Room
            /\ dispatched' = <<Tone(digits[1], Head(activeCalls), digits)>>
            /\ micro' = Append(micro, AwaitedBy(ToneTask(Head(activeCalls), digits, 1, FALSE), a))
            /\ ret' = NoRet
            /\ last' = Step("sendDTMF", Head(activeCalls))
            /\ emitted' = <<>>
    /\ UNCHANGED <<isConnected, currentConfig, registrationState, calls, nextId, activeCalls,
                   callHistory, timers, tasks, now, callHistoryService, historyFile>>
    /\ forwarded /\ invoked(a)

\* sendDTMF(digits) called from outside the service.
sendDTMF(digits) ==
    sendDTMFBy(digits, Nobody)

\* error.message of the error simulateDTMFTone threw.
ToneError == "tone error"

\* sendDTMF resumes from `await this.simulateDTMFTone(digit)`: it sets the
\* 100 ms timer (line 331); when the tone threw, the await throws inside the
\* try block, the loop ends and the catch block (lines 344-350) returns the
\* failure.
sendDTMFWait ==
    /\ micro # <<>> /\ Head(micro).k = "tone"
    /\ LET t == Head(micro) IN
        /\ last' = Step("sendDTMFWait", t.id)
        /\ IF t.failed
           THEN /\ ret' = Fail("sendDTMF", t.id, ToneError)
                /\ micro' = Tail(micro) \o Returned(t.awaiter, ret')
                /\ UNCHANGED tasks
           ELSE /\ ret' = NoRet
                /\ micro' = Tail(micro)
                /\ tasks' = tasks (+) One(AwaitedBy(DTMFTask(t.id, t.digits, t.i + 1), t.awaiter))
    /\ emitted' = <<>>
    /\ dispatched' = <<>>
    /\ UNCHANGED <<isConnected, currentConfig, registrationState, calls, nextId, activeCalls,
                   callHistory, timers, now, callHistoryService, historyFile>>
    /\ toRenderer

\* sendDTMF after a 100 ms wait: the next digit is dispatched and its tone
\* awaited, or the loop is over and dtmf-sent is emitted (lines 334-342).
sendDTMFResume(t) ==
    /\ Drained
    /\ t \in Pending /\ t.k = "sendDTMF"
    /\ last' = Step("sendDTMFResume", t.id)
    /\ tasks' = tasks (-) One(t)
    /\ IF t.i <= Len(t.digits)
       THEN /\ dispatched' = <<Tone(t.digits[t.i], t.id, t.digits)>>
            /\ micro' = <<AwaitedBy(ToneTask(t.id, t.digits, t.i, FALSE), t.awaiter)>>
            /\ ret' = NoRet
            /\ emitted' = <<>>
       ELSE /\ dispatched' = <<>>
            /\ ret' = Ok("sendDTMF", t.id)
            /\ micro' = Returned(t.awaiter, ret')
            /\ emitted' = <<DTMFSent(t.id, t.digits)>>
    /\ UNCHANGED <<isConnected, currentConfig, registrationState, calls, nextId, activeCalls,
                   callHistory, timers, now, callHistoryService, historyFile>>
    /\ toRenderer

\* sendDTMF whose first simulateDTMFTone throws: the promise of the tone is
\* rejected and sendDTMF is suspended at its await (line 330).
sendDTMFThrow(digits) ==
    /\ activeCalls # <<>> /\ digits # <<>>
    /\ Room
    /\ dispatched' = <<FailedTone(digits[1], Head(activeCalls), digits)>>
    /\ micro' = Append(micro, ToneTask(Head(activeCalls), digits, 1, TRUE))
    /\ ret' = NoRet
    /\ last' = Step("sendDTMF", Head(activeCalls))
    /\ emitted' = <<>>
    /\ UNCHANGED <<isConnected, currentConfig, registrationState, calls, nextId, activeCalls,
                   callHistory, timers, tasks, now, callHistoryService, historyFile>>
    /\ toRenderer

\* sendDTMF after a 100 ms wait, with a simulateDTMFTone that throws.
sendDTMFResumeThrow(t) ==
    /\ Drained
    /\ t \in Pending /\ t.k = "sendDTMF"
    /\ t.i <= Len(t.digits)
    /\ last' = Step("sendDTMFResume", t.id)
    /\ dispatched' = <<FailedTone(t.digits[t.i], t.id, t.digits)>>
    /\ tasks' = tasks (-) One(t)
    /\ micro' = <<AwaitedBy(ToneTask(t.id, t.digits, t.i, TRUE), t.awaiter)>>
    /\ ret' = NoRet
    /\ emitted' = <<>>
    /\ UNCHANGED <<isConnected, currentConfig, registrationState, calls, nextId, activeCalls,
                   callHistory, timers, now, callHistoryService, historyFile>>
    /\ toRenderer

\* -------------------------------------------------------------- listeners
\* emit() calls the listeners synchronously, inside the try block of the
\* handler: when a listener throws, the statements after the emit are skipped
\* and the catch block of the handler builds the result.
ListenerError == "listener error"

\* connect lines 121-129 with a 'connected' listener that throws: the catch
\* block (lines 142-153) takes the connected state back.
connectResumeThrow(t) ==
    /\ Drained
    /\ t \in Connecting /\ t.n = 0
    /\ tasks' = Dequeue(t)
    /\ isConnected' = FALSE
    /\ registrationState' = "failed"
    /\ emitted' = <<Threw(Connected(t.cfg)), Ev("connection-failed", NoId)>>
    /\ ret' = Fail("connect", NoId, ListenerError)
    /\ micro' = Returned(t.awaiter, ret')
    /\ last' = Step("connectResume", NoId)
    /\ dispatched' = <<>>
    /\ UNCHANGED <<currentConfig, calls, nextId, activeCalls, callHistory, timers, now,
                   callHistoryService, historyFile>>
    /\ toRenderer

\* makeCall line 222 with a 'call-initiated' listener that throws: the call
\* stays in activeCalls and the catch block (lines 230-236) returns a failure.
makeCallResumeThrow ==
    /\ micro # <<>> /\ Head(micro).k = "makeCall"
    /\ emitted' = <<Threw(Ev("call-initiated", Head(micro).id))>>
    /\ ret' = Fail("makeCall", NoId, ListenerError)
    /\ last' = Step("makeCallResume", Head(micro).id)
    /\ micro' = Tail(micro) \o Returned(Head(micro).awaiter, ret')
    /\ dispatched' = <<>>
    /\ UNCHANGED <<isConnected, currentConfig, registrationState, calls, nextId, activeCalls,
                   callHistory, timers, tasks, now, callHistoryService, historyFile>>
    /\ toRenderer

\* answerCall line 260 with a 'call-answered' listener that throws.
answerCallResumeThrow ==
    /\ micro # <<>> /\ Head(micro).k = "answerCall"
    /\ emitted' = <<Threw(Ev("call-answered", Head(micro).id))>>
    /\ ret' = Fail("answerCall", Head(micro).id, ListenerError)
    /\ last' = Step("answerCallResume", Head(micro).id)
    /\ micro' = Tail(micro) \o Returned(Head(micro).awaiter, ret')
    /\ dispatched' = <<>>
    /\ UNCHANGED <<isConnected, currentConfig, registrationState, calls, nextId, activeCalls,
                   callHistory, timers, tasks, now, callHistoryService, historyFile>>
    /\ toRenderer

\* simulateIncomingCall lines 385-405 with an 'incoming-call' listener that
\* throws: the call is in the active calls and rings, the function has no try
\* block, so setTimeout (line 408) is never reached and the returned promise
\* rejects with the listener's error.
simulateIncomingCallThrow(fromNumber) ==
    /\ currentConfig # NullConfig
    /\ nextId <= MaxCalls
    /\ calls' = [calls EXCEPT ![nextId] = newCall("inbound", fromNumber, "ringing")]
    /\ activeCalls' = Append(activeCalls, nextId)
    /\ nextId' = nextId + 1
    /\ emitted' = <<Threw(Ev("incoming-call", nextId))>>
    /\ ret' = Fail("simulateIncomingCall", nextId, ListenerError)
    /\ last' = Step("simulateIncomingCall", nextId)
    /\ dispatched' = <<>>
    /\ UNCHANGED <<isConnected, currentConfig, registrationState, callHistory, timers, micro,
                   tasks, now, callHistoryService, historyFile>>
    /\ toRenderer

\* hangupCall lines 296-302 with a 'call-ended' listener that throws: the call
\* is in the history and deleted when the catch block returns the failure.
hangupCallResumeThrow ==
    /\ micro # <<>> /\ Head(micro).k = "hangup"
    /\ LET callId == Head(micro).id IN
        /\ callHistory' = Append(callHistory, calls[callId])
        /\ activeCalls' = Delete(callId)
        /\ emitted' = <<Threw(Ev("call-ended", callId))>>
        /\ ret' = Fail("hangupCall", callId, ListenerError)
        /\ last' = Step("hangupCallResume", callId)
    /\ micro' = Tail(micro) \o Returned(Head(micro).awaiter, ret')
    /\ dispatched' = <<>>
    /\ UNCHANGED <<isConnected, currentConfig, registrationState, calls, nextId, timers,
                   tasks, now, callHistoryService, historyFile>>
    /\ toRenderer

\* disconnect lines 169-176 with a 'disconnected' listener that throws: the
\* state is cleared and the catch block (lines 185-191) returns a failure.
disconnectFailed(evs) ==
    /\ isConnected' = FALSE
    /\ registrationState' = "unregistered"
    /\ currentConfig' = NullConfig
    /\ emitted' = Append(evs, Threw(Ev("disconnected", NoId)))
    /\ ret' = Fail("disconnect", NoId, ListenerError)

\* disconnect() on a session without calls, with a 'disconnected' listener that throws.
disconnectThrow ==
    /\ isConnected /\ activeCalls = <<>>
    /\ last' = Step("disconnect", NoId)
    /\ dispatched' = <<>>
    /\ disconnectFailed(<<>>)
    /\ UNCHANGED <<calls, micro, nextId, activeCalls, callHistory, timers, tasks, now,
                   callHistoryService, historyFile>>
    /\ toRenderer

\* disconnect resumes from its await with no call left, with a 'disconnected'
\* listener that throws.
disconnectResumeThrow ==
    /\ micro # <<>> /\ Head(micro).k = "disconnect"
    /\ toHangup(activeCalls, Head(micro).ok) = <<>>
    /\ disconnectFailed(<<>>)
    /\ micro' = Tail(micro) \o Returned(Head(micro).awaiter, ret')
    /\ last' = Resumed("disconnectResume", Head(micro).id, Head(micro).ok)
    /\ dispatched' = <<>>
    /\ UNCHANGED <<calls, nextId, activeCalls, callHistory, timers, tasks, now, callHistoryService, historyFile>>
    /\ toRenderer

\* ------------------------------------------------------------ the history
\* The records of `s` by startTime, latest first, as Array.prototype.sort
\* leaves them: records with equal startTime keep their order.
InsertSorted(s, x) ==
    LET before == SelectSeq(s, LAMBDA y : y.startTime >= x.startTime)
        after == SelectSeq(s, LAMBDA y : y.startTime < x.startTime)
    IN  before \o <<x>> \o after

RECURSIVE SortedByStartTime(_)
SortedByStartTime(s) ==
    IF s = <<>> THEN <<>>
    ELSE InsertSorted(SortedByStartTime(SubSeq(s, 1, Len(s) - 1)), s[Len(s)])

\* The limits handed to getCallHistory: one record, and the default.
Limits == {1, 50}

\* SIPService.getCallHistory(limit) lines 530-534: this.callHistory is sorted
\* in place, and the first `limit` records are returned.
getCallHistory(limit) ==
    /\ callHistory' = SortedByStartTime(callHistory)
    /\ ret' = [op |-> "getCallHistory", id |-> NoId, success |-> TRUE, error |-> "",
               records |-> SubSeq(callHistory', 1, IF limit < Len(callHistory) THEN limit
                                                     ELSE Len(callHistory))]
    /\ last' = Step("getCallHistory", NoId)
    /\ emitted' = <<>>
    /\ dispatched' = <<>>
    /\ UNCHANGED <<isConnected, currentConfig, registrationState, calls, nextId, activeCalls,
                   timers, micro, tasks, now, callHistoryService, historyFile>>
    /\ toRenderer

\* ---------------------------------------------------------- history store
\* CallHistoryService.saveHistory, called by `who` and waiting for the disk:
\* first for fs.access of the data directory (and fs.mkdir when it is
\* missing), then for fs.writeFile with the store as it was serialised.
\* Stage "write": the file is open and its data not written yet; stage
\* "written": the data is in the file and the promise is about to resolve.
SaveTask(who, id, stage, data) ==
    [k |-> "saveHistory", id |-> id, awaiter |-> Nobody, who |-> who, stage |-> stage, data |-> data]

\* CallHistoryService.loadHistory waiting for fs.readFile: stage "read" while
\* the file is not read yet, stage "loaded" with the content that was read.
LoadTask(stage, data) ==
    [k |-> "loadHistory", id |-> NoId, awaiter |-> Nobody, stage |-> stage, data |-> data]

\* CallHistoryService.initialize (part_007 lines 20-23) up to `await
\* fs.readFile` in loadHistory.
initialize ==
    /\ Room
    /\ tasks' = tasks (+) One(LoadTask("read", NoData))
    /\ ret' = NoRet
    /\ last' = Step("initialize", NoId)
    /\ emitted' = <<>>
    /\ dispatched' = <<>>
    /\ UNCHANGED <<isConnected, currentConfig, registrationState, calls, nextId, activeCalls,
                   callHistory, timers, micro, now, callHistoryService, historyFile>>
    /\ toRenderer

\* fs.readFile at work outside the event loop: it reads what the file holds
\* at that moment, which is no data while a write that opened the file has
\* not put its data there.
readFile(t) ==
    /\ t \in Pending /\ t.k = "loadHistory" /\ t.stage = "read"
    /\ tasks' = (tasks (-) One(t)) (+) One(LoadTask("loaded", historyFile))
    /\ ret' = NoRet
    /\ last' = Step("readFile", NoId)
    /\ emitted' = <<>>
    /\ dispatched' = <<>>
    /\ UNCHANGED <<isConnected, currentConfig, registrationState, calls, nextId, activeCalls,
                   callHistory, timers, micro, now, callHistoryService, historyFile>>
    /\ toRenderer

\* loadHistory after the file is read (part_007 lines 178-185): the store is
\* what JSON.parse makes of the content, and empty when there is no file or
\* JSON.parse throws; initialize returns true.
initializeResume(t) ==
    /\ Drained
    /\ t \in Pending /\ t.k = "loadHistory" /\ t.stage = "loaded"
    /\ tasks' = tasks (-) One(t)
    /\ callHistoryService' = Parsed(t.data)
    /\ ret' = Ok("initialize", NoId)
    /\ last' = Step("initializeResume", NoId)
    /\ emitted' = <<>>
    /\ dispatched' = <<>>
    /\ UNCHANGED <<isConnected, currentConfig, registrationState, calls, nextId, activeCalls,
                   callHistory, timers, micro, now, historyFile>>
    /\ toRenderer

\* CallHistoryService.getCallHistory(limit) with no filter: history.slice(0, limit).
FirstOf(history, limit) ==
    SubSeq(history, 1, IF limit < Len(history) THEN limit ELSE Len(history))

\* ipcMain 'history-get-calls' (limit = 50 by default):
\* callHistoryService.getCallHistory(limit), the records the history tab of the
\* renderer shows.
historyGetCalls(limit) ==
    /\ ret' = [op |-> "history-get-calls", id |-> NoId, success |-> TRUE, error |-> "",
               records |-> FirstOf(callHistoryService, limit)]
    /\ last' = Step("history-get-calls", NoId)
    /\ emitted' = <<>>
    /\ dispatched' = <<>>
    /\ UNCHANGED <<isConnected, currentConfig, registrationState, calls, nextId, activeCalls,
                   callHistory, timers, micro, tasks, now, callHistoryService, historyFile>>
    /\ toRenderer

\* CallHistoryService.addCall(callData) (part_007 lines 31-51): the record is
\* put at the head of the store and saveHistory is awaited.  Nothing in the
\* repository calls addCall.
addCall(callData) ==
    /\ Room
    /\ Len(callHistoryService) < MaxStored
    /\ callHistoryService' = <<callData>> \o callHistoryService
    /\ tasks' = tasks (+) One(SaveTask("addCall", callData.id, "access", <<>>))
    /\ ret' = NoRet
    /\ last' = Step("addCall", callData.id)
    /\ emitted' = <<>>
    /\ dispatched' = <<>>
    /\ UNCHANGED <<isConnected, currentConfig, registrationState, calls, nextId, activeCalls,
                   callHistory, timers, micro, now, historyFile>>
    /\ toRenderer

\* ipcMain 'history-clear': clearHistory (part_007 lines 153-156) empties the
\* store and awaits saveHistory.
historyClear ==
    /\ Room
    /\ callHistoryService' = <<>>
    /\ tasks' = tasks (+) One(SaveTask("history-clear", NoId, "access", <<>>))
    /\ ret' = NoRet
    /\ last' = Step("history-clear", NoId)
    /\ emitted' = <<>>
    /\ dispatched' = <<>>
    /\ UNCHANGED <<isConnected, currentConfig, registrationState, calls, nextId, activeCalls,
                   callHistory, timers, micro, now, historyFile>>
    /\ toRenderer

\* saveHistory once the data directory is there (part_007 lines 192-198): the
\* store, as it is now, is serialised and handed to fs.writeFile, which opens
\* the file for writing: what the file held is gone, and a read that starts
\* from now on finds no data until the data of a write is there.
saveHistoryWrite(t) ==
    /\ Drained
    /\ t \in Pending /\ t.k = "saveHistory" /\ t.stage = "access"
    /\ tasks' = (tasks (-) One(t)) (+) One(SaveTask(t.who, t.id, "write", callHistoryService))
    /\ historyFile' = NoData
    /\ ret' = NoRet
    /\ last' = Step("saveHistory", t.id)
    /\ emitted' = <<>>
    /\ dispatched' = <<>>
    /\ UNCHANGED <<isConnected, currentConfig, registrationState, calls, nextId, activeCalls,
                   callHistory, timers, micro, now, callHistoryService>>
    /\ toRenderer

\* fs.writeFile at work outside the event loop: the serialised store is
\* written from the start of the file, over what another write in flight may
\* have put there.
writeFile(t) ==
    /\ t \in Pending /\ t.k = "saveHistory" /\ t.stage = "write"
    /\ tasks' = (tasks (-) One(t)) (+) One(SaveTask(t.who, t.id, "written", t.data))
    /\ historyFile' = Overlay(t.data, historyFile)
    /\ ret' = NoRet
    /\ last' = Step("writeFile", t.id)
    /\ emitted' = <<>>
    /\ dispatched' = <<>>
    /\ UNCHANGED <<isConnected, currentConfig, registrationState, calls, nextId, activeCalls,
                   callHistory, timers, micro, now, callHistoryService>>
    /\ toRenderer

\* addCall after saveHistory returned (part_007 lines 53-59): it emits
\* call-logged and returns success.
addCallResume(t) ==
    /\ Drained
    /\ t \in Pending /\ t.k = "saveHistory" /\ t.stage = "written" /\ t.who = "addCall"
    /\ tasks' = tasks (-) One(t)
    /\ ret' = Ok("addCall", t.id)
    /\ last' = Step("addCallResume", t.id)
    /\ emitted' = <<Ev("call-logged", t.id)>>
    /\ dispatched' = <<>>
    /\ UNCHANGED <<isConnected, currentConfig, registrationState, calls, nextId, activeCalls,
                   callHistory, timers, micro, now, callHistoryService, historyFile>>
    /\ toRenderer

\* clearHistory after saveHistory returned (part_007 lines 158-164): it emits
\* history-cleared and returns success.
historyClearResume(t) ==
    /\ Drained
    /\ t \in Pending /\ t.k = "saveHistory" /\ t.stage = "written" /\ t.who = "history-clear"
    /\ tasks' = tasks (-) One(t)
    /\ ret' = Ok("history-clear", NoId)
    /\ last' = Step("history-clearResume", NoId)
    /\ emitted' = <<Ev("history-cleared", NoId)>>
    /\ dispatched' = <<>>
    /\ UNCHANGED <<isConnected, currentConfig, registrationState, calls, nextId, activeCalls,
                   callHistory, timers, micro, now, callHistoryService, historyFile>>
    /\ toRenderer

\* ------------------------------------------------------------------ specs
\* The state space of the whole service (Spec, below) is the product of the
\* session, the calls, the clock and the DTMF loops.  The specifications
\* SpecSession, SpecCalls, SpecClock and SpecDTMF run the same actions over one
\* part each; a property is stated under the one that holds every action able
\* to change what the property reads.  In these four every listener returns;
\* SpecListeners adds the listeners that throw, SpecHistory the history store
\* of the main process, and SpecRinging the fairness of the event loop.

\* One valid and one invalid configuration, for the specifications that are
\* not about the validation of configurations.
TheConfig == [provider |-> "FLEXPBX", server |-> "", username |-> "alice", password |-> "secret"]
SomeConfigs == {TheConfig, [TheConfig EXCEPT !.username = ""]}

\* ------------------------------------------------------------ the window
\* The windows the application opens, one after the other.
MaxWindows == 2

\* createMainWindow (src/deployment/modules/core/main.js lines 52-63), called
\* when the application is ready and on 'activate' when no window is left:
\* this.mainWindow is a new BrowserWindow whose preload gives the page
\* window.flexPhoneAPI.  Events are forwarded to it from now on; its page has
\* not run yet.
createWindow ==
    /\ ~mainWindow
    /\ windowId < MaxWindows
    /\ mainWindow' = TRUE
    /\ windowId' = windowId + 1
    /\ UNCHANGED <<isConnected, currentConfig, registrationState, calls, nextId, activeCalls,
                   callHistory, timers, micro, tasks, now, last, ret, emitted, dispatched,
                   callHistoryService, historyFile, ipc, toMain, currentCall,
                   rendererConnected, rendererReady>>

\* DOMContentLoaded (part_004 lines 953-955): the page builds FlexPhoneApp,
\* which starts with currentCall = null and isConnected = false and registers
\* its listeners (setupIPCListeners).
DOMContentLoaded ==
    /\ mainWindow /\ ~rendererReady
    /\ rendererReady' = TRUE
    /\ currentCall' = NoId
    /\ rendererConnected' = FALSE
    /\ UNCHANGED <<isConnected, currentConfig, registrationState, calls, nextId, activeCalls,
                   callHistory, timers, micro, tasks, now, last, ret, emitted, dispatched,
                   callHistoryService, historyFile, mainWindow, windowId, ipc, toMain>>

\* A message that arrives in the page before FlexPhoneApp has registered its
\* listeners reaches nobody.
unheard ==
    /\ mainWindow /\ ~rendererReady
    /\ ipc # <<>>
    /\ ipc' = Tail(ipc)
    /\ UNCHANGED <<isConnected, currentConfig, registrationState, calls, nextId, activeCalls,
                   callHistory, timers, micro, tasks, now, last, ret, emitted, dispatched,
                   callHistoryService, historyFile, mainWindow, windowId, toMain, currentCall,
                   rendererConnected, rendererReady>>

\* The window's 'closed' handler (main.js lines 91-93): this.mainWindow = null.
\* The renderer is gone with the window, and so is what was on its way to it
\* and from it. The event is a task of the event loop, like a timer callback.
windowClosed ==
    /\ Drained
    /\ mainWindow
    /\ mainWindow' = FALSE
    /\ rendererReady' = FALSE
    /\ ipc' = <<>>
    /\ toMain' = <<>>
    /\ UNCHANGED <<isConnected, currentConfig, registrationState, calls, nextId, activeCalls,
                   callHistory, timers, micro, tasks, now, last, ret, emitted, dispatched,
                   callHistoryService, historyFile, windowId, currentCall, rendererConnected>>

\* ------------------------------------------------------ ipcMain handlers
\* The invocation at the head of the messages to the main process is for
\* `channel`. Its handler is started by the event loop of the main process, so
\* no promise job is pending when it starts.
Arrives(channel) == Drained /\ toMain # <<>> /\ Head(toMain).channel = channel
\* The frame that awaits the service method the arriving invocation calls.
Invoker == <<IpcFrame(Head(toMain).w)>>

\* ipcMain.handle('sip-connect') (main.js lines 105-107).
sipConnect ==
    /\ Arrives("sip-connect")
    /\ connectBy(Head(toMain).config, Invoker)

\* ipcMain.handle('sip-disconnect') (main.js lines 109-111).
sipDisconnect ==
    /\ Arrives("sip-disconnect")
    /\ disconnectBy(Invoker)

\* ipcMain.handle('sip-make-call') (main.js lines 113-115).
sipMakeCall ==
    /\ Arrives("sip-make-call")
    /\ makeCallBy(Head(toMain).number, Invoker)

\* ipcMain.handle('sip-answer-call') (main.js lines 117-119).
sipAnswerCall ==
    /\ Arrives("sip-answer-call")
    /\ answerCallBy(Head(toMain).id, Invoker)

\* ipcMain.handle('sip-hangup-call') (main.js lines 121-123).
sipHangupCall ==
    /\ Arrives("sip-hangup-call")
    /\ hangupCallBy(Head(toMain).id, Invoker)

\* ipcMain.handle('sip-send-dtmf') (main.js lines 125-127).
sipSendDTMF ==
    /\ Arrives("sip-send-dtmf")
    /\ sendDTMFBy(Head(toMain).digits, Invoker)

\* The ipcMain handler resumes from `return await this.sipService.x()` (main.js
\* lines 105-127) and returns the result: its own promise resolves.
handlerReturn ==
    /\ micro # <<>> /\ Head(micro).k = "handler"
    /\ micro' = Append(Tail(micro), ReplyTask(Head(micro).r, Head(micro).w))
    /\ last' = Step("handlerReturn", Head(micro).id)
    /\ ret' = NoRet
    /\ emitted' = <<>>
    /\ dispatched' = <<>>
    /\ UNCHANGED <<isConnected, currentConfig, registrationState, calls, nextId, activeCalls,
                   callHistory, timers, tasks, now, callHistoryService, historyFile>>
    /\ toRenderer

\* ipcMain.handle: the result of the handler is sent to the renderer that
\* invoked it, if its window is still there.
sendReply ==
    /\ micro # <<>> /\ Head(micro).k = "reply"
    /\ micro' = Tail(micro)
    /\ ipc' = IF mainWindow /\ Head(micro).w = windowId
              THEN Append(ipc, ReplyMsg(Head(micro).r)) ELSE ipc
    /\ last' = Step("sendReply", Head(micro).id)
    /\ ret' = NoRet
    /\ emitted' = <<>>
    /\ dispatched' = <<>>
    /\ UNCHANGED <<isConnected, currentConfig, registrationState, calls, nextId, activeCalls,
                   callHistory, timers, tasks, now, callHistoryService, historyFile, mainWindow,
                   windowId, toMain, currentCall, rendererConnected, rendererReady>>

\* ------------------------------------------------- the renderer's commands
\* A command of the renderer runs its own guards and sends the invocation
\* (ipcRenderer.invoke) with the arguments it reads now; the handler of the
\* main process runs when the invocation arrives, and the renderer's fields
\* change only when the result comes back.
Invocation(channel, w) ==
    [channel |-> channel, w |-> w, id |-> NoId, number |-> "", config |-> NullConfig, digits |-> <<>>]

Issued == mainWindow /\ rendererReady /\ Len(toMain) + Len(ipc) < MaxInTransit

Invokes(m) ==
    /\ toMain' = Append(toMain, m)
    /\ UNCHANGED <<isConnected, currentConfig, registrationState, calls, nextId, activeCalls,
                   callHistory, timers, micro, tasks, now, last, ret, emitted, dispatched,
                   callHistoryService, historyFile, mainWindow, windowId, ipc, currentCall,
                   rendererConnected, rendererReady>>

\* connectSIP lines 406-416: sip.connect(config) with the form's values.
connectSIP(config) ==
    /\ Issued
    /\ Invokes([Invocation("sip-connect", windowId) EXCEPT !.config = config])

\* disconnectSIP lines 432-434: sip.disconnect().
disconnectSIP ==
    /\ Issued
    /\ Invokes(Invocation("sip-disconnect", windowId))

\* The renderer's makeCall lines 342-355: a number is entered and the renderer
\* believes it is connected; currentCall is not looked at.
rendererMakeCall(number) ==
    /\ Issued
    /\ number # ""
    /\ rendererConnected
    /\ Invokes([Invocation("sip-make-call", windowId) EXCEPT !.number = number])

\* The renderer's hangupCall lines 368-372 and declineCall lines 394-398: the
\* same guard and the same invocation, sip.hangupCall(this.currentCall).
rendererHangupCall ==
    /\ Issued
    /\ currentCall # NoId
    /\ Invokes([Invocation("sip-hangup-call", windowId) EXCEPT !.id = currentCall])

\* The renderer's answerCall lines 381-385: sip.answerCall(this.currentCall).
rendererAnswerCall ==
    /\ Issued
    /\ currentCall # NoId
    /\ Invokes([Invocation("sip-answer-call", windowId) EXCEPT !.id = currentCall])

\* addDigit lines 226-237: on a call, a key of the dialer sends its digit,
\* sip.sendDTMF(digit); nobody waits for the result.
addDigit(digit) ==
    /\ Issued
    /\ rendererConnected /\ currentCall # NoId
    /\ Invokes([Invocation("sip-send-dtmf", windowId) EXCEPT !.digits = <<digit>>])

\* ------------------------------------------- what the renderer receives
\* The renderer takes the oldest message in transit; the service stands still.
Receives(kind, name) ==
    /\ mainWindow /\ rendererReady
    /\ ipc # <<>>
    /\ Head(ipc).kind = kind
    /\ Head(ipc).name = name
    /\ ipc' = Tail(ipc)
    /\ UNCHANGED <<isConnected, currentConfig, registrationState, calls, nextId, activeCalls,
                   callHistory, timers, micro, tasks, now, last, ret, emitted, dispatched,
                   callHistoryService, historyFile, mainWindow, windowId, toMain, rendererReady>>

\* onSIPConnected (setupIPCListeners 'sip-connected').
onSIPConnected ==
    /\ Receives("event", "connected")
    /\ rendererConnected' = TRUE
    /\ UNCHANGED currentCall

\* onSIPDisconnected (setupIPCListeners 'sip-disconnected').
onSIPDisconnected ==
    /\ Receives("event", "disconnected")
    /\ rendererConnected' = FALSE
    /\ UNCHANGED currentCall

\* onIncomingCall lines 469-472.
onIncomingCall ==
    /\ Receives("event", "incoming-call")
    /\ currentCall' = Head(ipc).id
    /\ UNCHANGED rendererConnected

\* onCallAnswered lines 474-479.
onCallAnswered ==
    /\ Receives("event", "call-answered")
    /\ currentCall' = Head(ipc).id
    /\ UNCHANGED rendererConnected

\* onCallEnded lines 481-487: currentCall = null, whichever call ended.
onCallEnded ==
    /\ Receives("event", "call-ended")
    /\ currentCall' = NoId
    /\ UNCHANGED rendererConnected

\* connectSIP lines 417-426, after the await.
connectSIPResume ==
    /\ Receives("reply", "connect")
    /\ rendererConnected' = (Head(ipc).success \/ rendererConnected)
    /\ UNCHANGED currentCall

\* disconnectSIP lines 435-439, after the await.
disconnectSIPResume ==
    /\ Receives("reply", "disconnect")
    /\ rendererConnected' = FALSE
    /\ UNCHANGED currentCall

\* The renderer's makeCall lines 355-363, after the await.
rendererMakeCallResume ==
    /\ Receives("reply", "makeCall")
    /\ currentCall' = IF Head(ipc).success THEN Head(ipc).id ELSE currentCall
    /\ UNCHANGED rendererConnected

\* The renderer's hangupCall lines 372-375 and declineCall lines 398-400, after
\* the await: currentCall = null whatever the result.
rendererHangupCallResume ==
    /\ Receives("reply", "hangupCall")
    /\ currentCall' = NoId
    /\ UNCHANGED rendererConnected

\* The renderer's answerCall lines 385-388, after the await.
rendererAnswerCallResume ==
    /\ Receives("reply", "answerCall")
    /\ UNCHANGED <<currentCall, rendererConnected>>

\* The result of the sip.sendDTMF that addDigit invoked (line 236) settles a
\* promise that nobody awaits.
addDigitSettled ==
    /\ Receives("reply", "sendDTMF")
    /\ UNCHANGED <<currentCall, rendererConnected>>

\* The session: connect and disconnect over every configuration, and the
\* operations that create and end calls.
NextSession ==
    \/ \E config \in Configs : connect(config)
    \/ \E t \in Pending : connectResume(t)
    \/ disconnect
    \/ disconnectResume
    \/ \E number \in Numbers : makeCall(number)
    \/ makeCallResume
    \/ \E fromNumber \in Numbers : simulateIncomingCall(fromNumber)
    \/ \E callId \in CallIds : hangupCall(callId)
    \/ hangupCallResume

SpecSession == Started /\ [][NextSession]_vars

\* The calls: every operation and timer that touches a call, at one instant
\* of the clock.
NextCalls ==
    \/ \E config \in SomeConfigs : connect(config)
    \/ \E t \in Pending : connectResume(t)
    \/ disconnect
    \/ disconnectResume
    \/ \E number \in Numbers : makeCall(number)
    \/ makeCallResume
    \/ \E callId \in CallIds : ringingTimer(callId)
    \/ \E callId \in CallIds : connectedTimer(callId)
    \/ \E callId \in CallIds : answerCall(callId)
    \/ answerCallResume
    \/ \E callId \in CallIds : hangupCall(callId)
    \/ hangupCallResume
    \/ \E fromNumber \in Numbers : simulateIncomingCall(fromNumber)
    \/ \E callId \in CallIds : autoHangupTimer(callId)

SpecCalls == Started /\ [][NextCalls]_vars

\* The time stamps of calls: the call operations and timers of one session,
\* and the clock.
NextClock ==
    \/ Tick
    \/ connect(TheConfig)
    \/ \E t \in Pending : connectResume(t)
    \/ \E number \in Numbers : makeCall(number)
    \/ makeCallResume
    \/ \E callId \in CallIds : ringingTimer(callId)
    \/ \E callId \in CallIds : connectedTimer(callId)
    \/ \E callId \in CallIds : answerCall(callId)
    \/ answerCallResume
    \/ \E callId \in CallIds : hangupCall(callId)
    \/ hangupCallResume
    \/ \E fromNumber \in Numbers : simulateIncomingCall(fromNumber)
    \/ \E callId \in CallIds : autoHangupTimer(callId)
    \/ \E limit \in Limits : getCallHistory(limit)

SpecClock == Started /\ [][NextClock]_vars

\* DTMF: sendDTMF against outbound calls in every status.
NextDTMF ==
    \/ \E config \in SomeConfigs : connect(config)
    \/ \E t \in Pending : connectResume(t)
    \/ \E number \in Numbers : makeCall(number)
    \/ makeCallResume
    \/ \E callId \in CallIds : ringingTimer(callId)
    \/ \E callId \in CallIds : connectedTimer(callId)
    \/ \E callId \in CallIds : hangupCall(callId)
    \/ hangupCallResume
    \/ \E digits \in DigitStrings : sendDTMF(digits)
    \/ sendDTMFWait
    \/ \E t \in Pending : sendDTMFResume(t)

SpecDTMF == Started /\ [][NextDTMF]_vars

\* Listeners that throw: the handlers that emit a core event, each with
\* listeners that return and with a listener that throws.
NextListeners ==
    \/ connect(TheConfig)
    \/ \E t \in Pending : connectResume(t)
    \/ \E t \in Pending : connectResumeThrow(t)
    \/ disconnect
    \/ disconnectThrow
    \/ disconnectResume
    \/ disconnectResumeThrow
    \/ \E number \in Numbers : makeCall(number)
    \/ makeCallResume
    \/ makeCallResumeThrow
    \/ \E fromNumber \in Numbers : simulateIncomingCall(fromNumber)
    \/ \E fromNumber \in Numbers : simulateIncomingCallThrow(fromNumber)
    \/ \E callId \in CallIds : answerCall(callId)
    \/ answerCallResume
    \/ answerCallResumeThrow
    \/ \E callId \in CallIds : hangupCall(callId)
    \/ hangupCallResume
    \/ hangupCallResumeThrow

SpecListeners == Started /\ [][NextListeners]_vars

\* The history the renderer reads, next to the calls that end.
NextHistory ==
    \/ connect(TheConfig)
    \/ \E t \in Pending : connectResume(t)
    \/ \E fromNumber \in Numbers : simulateIncomingCall(fromNumber)
    \/ \E callId \in CallIds : hangupCall(callId)
    \/ hangupCallResume
    \/ initialize
    \/ \E t \in Pending : readFile(t)
    \/ \E t \in Pending : initializeResume(t)
    \/ \E limit \in Limits : historyGetCalls(limit)
    \/ \E callData \in LoggedCalls : addCall(callData)
    \/ historyClear
    \/ \E t \in Pending : saveHistoryWrite(t)
    \/ \E t \in Pending : writeFile(t)
    \/ \E t \in Pending : addCallResume(t)
    \/ \E t \in Pending : historyClearResume(t)

SpecHistory == Init /\ [][NextHistory]_vars

\* Incoming calls and what ends them.  Timers fire and suspended handlers
\* resume: the event loop runs every continuation queued on the microtask
\* queue and every timer that is due, while nothing obliges the user to answer
\* or to hang up.  The timer is strongly fair because only the bound on the
\* suspended handlers ever disables it.
NextRinging ==
    \/ connect(TheConfig)
    \/ \E t \in Pending : connectResume(t)
    \/ \E fromNumber \in Numbers : simulateIncomingCall(fromNumber)
    \/ \E fromNumber \in Numbers : simulateIncomingCallThrow(fromNumber)
    \/ \E callId \in CallIds : answerCall(callId)
    \/ answerCallResume
    \/ \E callId \in CallIds : hangupCall(callId)
    \/ hangupCallResume
    \/ \E callId \in CallIds : autoHangupTimer(callId)

SpecRinging ==
    /\ Started /\ [][NextRinging]_vars
    /\ WF_vars(\E t \in Pending : connectResume(t))
    /\ WF_vars(answerCallResume)
    /\ WF_vars(hangupCallResume)
    /\ \A callId \in CallIds : SF_vars(autoHangupTimer(callId))

\* The numbers a caller may hand to makeCall, the empty string among them.
DialledNumbers == Numbers \cup {""}

\* Dialling: makeCall over every dialled number, in one session.
NextDialling ==
    \/ connect(TheConfig)
    \/ \E t \in Pending : connectResume(t)
    \/ disconnect
    \/ disconnectResume
    \/ \E number \in DialledNumbers : makeCall(number)
    \/ makeCallResume
    \/ \E callId \in CallIds : ringingTimer(callId)
    \/ \E callId \in CallIds : connectedTimer(callId)
    \/ \E callId \in CallIds : hangupCall(callId)
    \/ hangupCallResume

SpecDialling == Started /\ [][NextDialling]_vars

\* Every provider id, known or not, with every combination of present and
\* absent server, username and password.
ProviderIds == DOMAIN sipProviders \cup inheritedKeys \cup {"", "NOSUCH"}
AnyConfigs ==
    [provider : ProviderIds,
     server : {"", "sip.example.com"},
     username : {"", "alice"},
     password : {"", "secret"}]

\* The validation of configurations: connect over every configuration.
NextConfig ==
    \/ \E config \in AnyConfigs : connect(config)
    \/ \E t \in Pending : connectResume(t)
    \/ disconnect

SpecConfig == Started /\ [][NextConfig]_vars

\* DTMF tones that fail: sendDTMF with tones that play and tones that throw.
NextTones ==
    \/ connect(TheConfig)
    \/ \E t \in Pending : connectResume(t)
    \/ \E number \in Numbers : makeCall(number)
    \/ makeCallResume
    \/ \E callId \in CallIds : ringingTimer(callId)
    \/ \E callId \in CallIds : connectedTimer(callId)
    \/ \E digits \in DigitStrings : sendDTMF(digits)
    \/ sendDTMFWait
    \/ \E t \in Pending : sendDTMFResume(t)
    \/ \E digits \in DigitStrings : sendDTMFThrow(digits)
    \/ \E t \in Pending : sendDTMFResumeThrow(t)

SpecTones == Started /\ [][NextTones]_vars

\* The renderer next to the service: the windows, the renderer's commands,
\* the results and the events it receives, the incoming calls and the 30 s
\* timer.  The timers of simulateCallConnection emit what is not forwarded.
NextRenderer ==
    \/ createWindow
    \/ DOMContentLoaded
    \/ connectSIP(TheConfig)
    \/ sipConnect
    \/ \E t \in Pending : connectResume(t)
    \/ disconnectSIP
    \/ sipDisconnect
    \/ disconnectResume
    \/ \E number \in Numbers : rendererMakeCall(number)
    \/ sipMakeCall
    \/ makeCallResume
    \/ \E fromNumber \in Numbers : simulateIncomingCall(fromNumber)
    \/ \E callId \in CallIds : autoHangupTimer(callId)
    \/ rendererAnswerCall
    \/ sipAnswerCall
    \/ answerCallResume
    \/ rendererHangupCall
    \/ sipHangupCall
    \/ hangupCallResume
    \/ handlerReturn
    \/ sendReply
    \/ onSIPConnected
    \/ onSIPDisconnected
    \/ onIncomingCall
    \/ onCallAnswered
    \/ onCallEnded
    \/ connectSIPResume
    \/ disconnectSIPResume
    \/ rendererMakeCallResume
    \/ rendererHangupCallResume
    \/ rendererAnswerCallResume

SpecRenderer == Started /\ [][NextRenderer]_vars

\* Windows that close and open again, next to a session with incoming calls.
NextWindows ==
    \/ createWindow
    \/ DOMContentLoaded
    \/ unheard
    \/ windowClosed
    \/ connectSIP(TheConfig)
    \/ sipConnect
    \/ \E t \in Pending : connectResume(t)
    \/ \E fromNumber \in Numbers : simulateIncomingCall(fromNumber)
    \/ rendererHangupCall
    \/ sipHangupCall
    \/ hangupCallResume
    \/ handlerReturn
    \/ sendReply
    \/ onSIPConnected
    \/ onIncomingCall
    \/ onCallEnded
    \/ connectSIPResume
    \/ rendererHangupCallResume

SpecWindows == Started /\ [][NextWindows]_vars

\* The keys of the dialer during a call: the digits the renderer sends, their
\* tones in the main process, and the results that come back.
NextKeypad ==
    \/ createWindow
    \/ DOMContentLoaded
    \/ connectSIP(TheConfig)
    \/ sipConnect
    \/ \E t \in Pending : connectResume(t)
    \/ \E fromNumber \in Numbers : simulateIncomingCall(fromNumber)
    \/ \E digit \in DigitAlphabet : addDigit(digit)
    \/ sipSendDTMF
    \/ sendDTMFWait
    \/ \E t \in Pending : sendDTMFResume(t)
    \/ handlerReturn
    \/ sendReply
    \/ onSIPConnected
    \/ onIncomingCall
    \/ connectSIPResume
    \/ addDigitSettled

SpecKeypad == Started /\ [][NextKeypad]_vars

\* The whole service.
Next ==
    \/ NextRenderer
    \/ NextWindows
    \/ NextKeypad
    \/ NextTones
    \/ NextConfig
    \/ NextDialling
    \/ NextRinging
    \/ NextSession
    \/ NextCalls
    \/ NextClock
    \/ NextDTMF
    \/ NextListeners
    \/ NextHistory

Spec == Init /\ [][Next]_vars

\* ------------------------------------------------------------- properties
\* The step taken is a step of handler `op` for call `id` (Tick alone moves the clock).
Ran(op, id) == last'.op = op /\ last'.id = id /\ now' = now

InHistory(callId) == \E i \in 1..Len(callHistory) : callHistory[i].id = callId

\* C1: a call enters the active set only while the session is registered;
\* makeCall without a registered session fails and creates no call, and an
\* incoming invite creates a call only while registered.
C1_CallsOnlyWhileRegistered ==
    [][/\ \A c \in CallIds :
            (~Has(c) /\ Has(c)') => (isConnected /\ registrationState = "registered")
       /\ (Ran("makeCall", NoId) /\ ~isConnected) =>
            (ret'.op = "makeCall" /\ ~ret'.success /\ activeCalls' = activeCalls)]_vars

\* C2: answerCall(callId) on an active, ringing call sets its status to
\* connected and its connectTime, and answerCall reports success only for a
\* call it connected; on an unknown id or a call in any other status it returns
\* a failure and changes neither the call nor the active set.
C2_AnswerContract ==
    [][\A c \in CallIds :
        /\ Ran("answerCall", c) =>
             IF Has(c) /\ calls[c].status = "ringing"
             THEN /\ calls'[c] = [calls[c] EXCEPT !.status = "connected", !.connectTime = now]
                  /\ activeCalls' = activeCalls
             ELSE /\ ret' = Fail("answerCall", c, ret'.error)
                  /\ calls' = calls
                  /\ activeCalls' = activeCalls
                  /\ micro' = micro
        /\ (ret'.op = "answerCall" /\ ret'.id = c /\ ret'.success) =>
             (calls'[c].connectTime # Null /\ calls'[c].status \in {"connected", "ended"})]_vars

\* C2 witness: answerCall has returned success for a call that is connected.
C2_Answered ==
    /\ ret.op = "answerCall" /\ ret.success
    /\ calls[ret.id].status = "connected"
    /\ calls[ret.id].direction = "inbound"

\* C3: the status of a call changes only along connecting->ringing,
\* ringing->connected and connecting/ringing/connected->ended; outbound calls
\* start in connecting, inbound calls in ringing; an ended call stays ended.
StatusEdges ==
    {<<"connecting", "ringing">>, <<"ringing", "connected">>,
     <<"connecting", "ended">>, <<"ringing", "ended">>, <<"connected", "ended">>}

C3_StatusEdges ==
    [][\A c \in CallIds :
        calls'[c].status # calls[c].status =>
            IF calls[c].status = "none"
            THEN \/ calls'[c].direction = "outbound" /\ calls'[c].status = "connecting"
                 \/ calls'[c].direction = "inbound" /\ calls'[c].status = "ringing"
            ELSE <<calls[c].status, calls'[c].status>> \in StatusEdges]_vars

\* C4: connectTime is assigned at most once, only at the transition into
\* connected, never before startTime and never after endTime.
C4_ConnectTimeOnce ==
    /\ [](\A c \in CallIds :
            calls[c].connectTime # Null =>
                /\ calls[c].startTime <= calls[c].connectTime
                /\ calls[c].endTime # Null => calls[c].connectTime <= calls[c].endTime)
    /\ [][\A c \in CallIds :
            calls'[c].connectTime # calls[c].connectTime =>
                /\ calls[c].connectTime = Null
                /\ calls[c].status # "connected"
                /\ calls'[c].status = "connected"]_vars

\* C5: hangupCall on an id that is not in the active set returns
\* success, adds no history entry and emits no call-ended event.
C5_SecondHangupSucceeds ==
    [][\A c \in CallIds :
        (Ran("hangupCall", c) /\ ~Has(c)) =>
            /\ ret'.op = "hangupCall" /\ ret'.success
            /\ callHistory' = callHistory
            /\ emitted' = <<>>]_vars

\* C6: every DTMF digit is dispatched while its target call is connected.
C6_DTMFOnlyWhileConnected ==
    \A i \in 1..Len(dispatched) : calls[dispatched[i].id].status = "connected"

\* C7: sendDTMF dispatches no digit and emits no dtmf-sent event for a digit
\* string that holds a character outside 0-9, *, #, A-D.
ValidDigits == {"0", "1", "2", "3", "4", "5", "6", "7", "8", "9", "*", "#", "A", "B", "C", "D"}
AllValid(digits) == \A i \in 1..Len(digits) : digits[i] \in ValidDigits

C7_DTMFValidatedFirst ==
    /\ \A i \in 1..Len(dispatched) : AllValid(dispatched[i].of)
    /\ \A i \in 1..Len(emitted) : emitted[i].name = "dtmf-sent" => AllValid(emitted[i].digits)

\* C8: when a connect invoked while a session was registered completes, every
\* call of the prior session has been ended and moved to the history.
C8_ReconnectEndsCalls ==
    [][\A t \in Pending :
        (Ran("connectResume", NoId) /\ t.k = "connect" /\ t.n = 0 /\ t.reg)
            => activeCalls' = <<>>]_vars

\* C9: connect with a config that fails validation returns a failure and
\* leaves registrationState, isConnected, currentConfig and the active calls
\* as they were.
C9_InvalidConnectNoChange ==
    [][(Ran("connect", NoId) /\ ret'.op = "connect" /\ ~ret'.success) =>
        UNCHANGED <<registrationState, isConnected, currentConfig, activeCalls>>]_vars

\* C10: the registration state is one of the five states of the
\* specification ('failed' is the code's name of Error) and becomes registered
\* only as the successor of connecting.
C10_RegisteredAfterConnecting ==
    /\ [](registrationState \in
            {"unregistered", "connecting", "registered", "unregistering", "failed"})
    /\ [][(registrationState' = "registered" /\ registrationState # "registered")
            => registrationState = "connecting"]_vars

\* C11: a connect that fails returns a failure, emits the failure event
\* (registration-failed; the service names it connection-failed) and leaves
\* the registration state unregistered when it completes.
C11_FailedConnectEndsUnregistered ==
    [][(Ran("connect", NoId) /\ ret'.op = "connect" /\ ~ret'.success) =>
        /\ \E i \in 1..Len(emitted') :
                emitted'[i].name \in {"registration-failed", "connection-failed"}
        /\ registrationState' = "unregistered"]_vars

\* C12: a connect that was in flight when disconnect() was invoked and
\* returned is superseded: its completion leaves the session unregistered and
\* emits no connected event.
C12_DisconnectSupersedesConnect ==
    [][(last = Step("disconnect", NoId) /\ ret = Ok("disconnect", NoId)
            /\ Ran("connectResume", NoId)) =>
        /\ ~isConnected'
        /\ registrationState' = "unregistered"
        /\ \A i \in 1..Len(emitted') : emitted'[i].name # "connected"]_vars

\* C13: a connect that completes while a later connect is in flight is
\* superseded (it neither registers the session nor emits connected), and the
\* config carried by every connected event is the session config that
\* getStatus reports when the event is emitted.
C13_SecondConnectSupersedes ==
    [][Ran("connectResume", NoId) =>
        /\ \A i \in 1..Len(emitted') :
                emitted'[i].name = "connected" => emitted'[i].cfg = currentConfig'
        /\ Cardinality(Connecting) > 1 =>
                /\ emitted' = <<>>
                /\ UNCHANGED <<isConnected, registrationState>>]_vars

\* C14: whenever disconnect() returns success the registration state is
\* unregistered and no call is active; a disconnect invoked without a session
\* changes nothing and emits nothing, one invoked with a session emits exactly
\* one disconnected event.
C14_DisconnectSuccess ==
    [][(last'.op \in {"disconnect", "disconnectResume"} /\ now' = now
            /\ ret'.op = "disconnect" /\ ret'.success) =>
        /\ registrationState' = "unregistered"
        /\ activeCalls' = <<>>
        /\ Len(SelectSeq(emitted', LAMBDA e : e.name = "disconnected")) =
                (IF isConnected THEN 1 ELSE 0)
        /\ ~isConnected => (emitted' = <<>> /\ UNCHANGED <<registrationState, activeCalls>>)]_vars

\* The outbound calls in the active set.
ActiveOutbound == {c \in CallIds : Has(c) /\ calls[c].direction = "outbound"}

\* C16: at most one outbound call (the default of maxConcurrentCalls) is
\* active at any time, and makeCall invoked with an outbound call active fails
\* and leaves the active calls as they are.
C16_ConcurrencyLimit ==
    /\ [](Cardinality(ActiveOutbound) <= 1)
    /\ [][\A c \in CallIds \cup {NoId} :
            (Ran("makeCall", c) /\ ActiveOutbound # {}) =>
                /\ ret'.op = "makeCall" /\ ~ret'.success
                /\ activeCalls' = activeCalls]_vars

\* C18: the history record of a call carries its outcome: completed for a call
\* that was connected, missed or declined for an inbound call that ended while
\* ringing.
C18_HistoryStatus ==
    \A i \in 1..Len(callHistory) :
        /\ callHistory[i].status \in {"completed", "missed", "declined"}
        /\ callHistory[i].connectTime # Null => callHistory[i].status = "completed"
        /\ callHistory[i].status \in {"missed", "declined"} =>
                callHistory[i].direction = "inbound"

C19_HistoryBeforeNotification ==
    /\ [](\A i \in 1..Len(emitted) :
            emitted[i].name = "call-ended" =>
                \E j \in 1..Len(callHistoryService) : callHistoryService[j].id = emitted[i].id)
    /\ [][\A i \in 1..Len(emitted) :
            (emitted[i].name = "call-ended" /\ Ran("history-get-calls", NoId)) =>
                \E j \in 1..Len(ret'.records) : ret'.records[j].id = emitted[i].id]_vars

\* C20: a step in which a listener of a core event throws ends in the state
\* and with the result of the step in which no listener throws: the result is
\* no failure, and the completed connect leaves the session registered.
C20_ListenerThrowChangesNothing ==
    [][(now' = now /\ \E i \in 1..Len(emitted') : emitted'[i].threw) =>
        /\ ret' = NoRet \/ ret'.success
        /\ last'.op = "connectResume" =>
                (isConnected' /\ registrationState' = "registered")
        /\ last'.op = "makeCallResume" => ret' = Ok("makeCall", last'.id)]_vars

\* C17: an inbound call that rings is answered, or it ends and is moved from
\* the active calls to the history, whether or not the user ever acts: no call
\* rings forever.
C17_RingingEnds ==
    \A c \in CallIds :
        (Has(c) /\ calls[c].direction = "inbound" /\ calls[c].status = "ringing")
            ~> \/ calls[c].status = "connected"
               \/ calls[c].status = "ended" /\ InHistory(c) /\ ~Has(c)

\* The duration a call has when it ends at endTime.
DurationAtHangup(call) ==
    IF call.connectTime # Null THEN call.endTime - call.connectTime ELSE 0

\* C21: the duration of every call is never negative; the step that ends a
\* call sets its duration to endTime - connectTime when connectTime is set and
\* leaves it 0 when connectTime is null, and every history record carries that
\* duration.
C21_Duration ==
    /\ [](\A c \in CallIds : calls[c].duration >= 0)
    /\ [](\A i \in 1..Len(callHistory) :
            /\ callHistory[i].duration >= 0
            /\ callHistory[i].duration = DurationAtHangup(callHistory[i]))
    /\ [][\A c \in CallIds :
            (calls'[c].endTime # calls[c].endTime) =>
                /\ calls'[c].status = "ended"
                /\ calls'[c].endTime = now
                /\ calls'[c].connectTime = calls[c].connectTime
                /\ calls'[c].duration = DurationAtHangup(calls'[c])]_vars

\* C21 witness: a call that was connected for one tick of the clock is in the
\* history, and so is a call that never connected and ended later than it began.
C21_Measured ==
    /\ \E i \in 1..Len(callHistory) :
            callHistory[i].connectTime # Null /\ callHistory[i].duration > 0
    /\ \E i \in 1..Len(callHistory) :
            /\ callHistory[i].connectTime = Null
            /\ callHistory[i].endTime > callHistory[i].startTime
            /\ callHistory[i].duration = 0

\* C22: makeCall with an empty number returns a failure, creates no call and
\* leaves the active calls as they are: no call has an empty remote number,
\* and no makeCall returns success for one.
C22_EmptyNumberRejected ==
    /\ \A c \in CallIds : calls[c].direction = "outbound" => calls[c].remoteNumber # ""
    /\ (ret.op = "makeCall" /\ ret.success) => calls[ret.id].remoteNumber # ""

\* The configurations connect is to accept: a known provider id, a username, a
\* password, and a server when the provider is the custom one.
Acceptable(config) ==
    /\ config.provider \in
            {"FLEXPBX", "CALLCENTRIC", "VOIPMS", "TWILIO", "GOOGLE_VOICE", "CUSTOM"}
    /\ config.username # "" /\ config.password # ""
    /\ config.provider = "CUSTOM" => config.server # ""

\* C23: connect(config) goes on to register, and then succeeds with the state
\* registered and a connected event, exactly when the config is acceptable;
\* otherwise it returns a failure and emits no connected event.
C23_ConnectIffAcceptable ==
    /\ [][\A config \in AnyConfigs :
            connect(config) =>
                IF Acceptable(config)
                THEN /\ ret' = NoRet
                     /\ \E t \in BagToSet(tasks') : t.k = "connect" /\ t.cfg = sipConfigOf(config)
                ELSE /\ ret' = Fail("connect", NoId, ret'.error)
                     /\ tasks' = tasks
                     /\ \A i \in 1..Len(emitted') : emitted'[i].name # "connected"]_vars
    /\ [][Ran("connectResume", NoId) =>
            /\ ret' = Ok("connect", NoId)
            /\ isConnected' /\ registrationState' = "registered"
            /\ \E t \in Connecting : emitted' = <<Connected(t.cfg)>>]_vars

\* C24: the 30 s timer of an inbound call that fires when the call is no
\* longer ringing (answered, or hung up and moved to the history) has no
\* effect: the calls, the active set and the history stay as they are, no
\* hangup is started and nothing is emitted.
C24_LateTimerNoEffect ==
    [][\A c \in CallIds :
        (Ran("autoHangupTimer", c) /\ ~(Has(c) /\ calls[c].status = "ringing")) =>
            /\ UNCHANGED <<calls, activeCalls, callHistory, micro, tasks>>
            /\ UNCHANGED <<isConnected, registrationState>>
            /\ emitted' = <<>>]_vars

\* C24 witness: the timer of an answered call has fired and the call is
\* connected and active, with no hangup under way.
C24_FiredAfterAnswer ==
    \E c \in CallIds :
        /\ last = Step("autoHangupTimer", c)
        /\ calls[c].direction = "inbound" /\ calls[c].status = "connected"
        /\ Has(c) /\ ~InHistory(c)
        /\ micro = <<>>

\* C25: a digit of sendDTMF that fails on a connected call does not end the
\* sequence: when sendDTMF resumes from the tone that failed it returns no
\* failure and waits the inter-digit spacing, to go on with the next digit or,
\* when none remains, to emit dtmf-sent and return success.
C25_FailedDigitDoesNotAbort ==
    [][\A c \in CallIds :
        (Ran("sendDTMFWait", c) /\ Head(micro).failed /\ calls[c].status = "connected") =>
            /\ ret' = NoRet
            /\ \E t \in BagToSet(tasks') :
                    t = AwaitedBy(DTMFTask(c, Head(micro).digits, Head(micro).i + 1),
                                  Head(micro).awaiter)]_vars

\* The number of history records of a call.
Records(c) == Cardinality({i \in 1..Len(callHistory) : callHistory[i].id = c})

\* C26: every call ever created is either in the active set or has exactly
\* one history record, never both and never two, so the active calls and the
\* history records together number the calls created.
C26_AccountedOnce ==
    /\ \A c \in CallIds :
            calls[c].status # "none" =>
                \/ Has(c) /\ Records(c) = 0
                \/ ~Has(c) /\ Records(c) = 1
    /\ Len(activeCalls) + Len(callHistory) = nextId - 1

\* C27: isConnected is true only with a currentConfig that is not null and the
\* registration state registered.
C27_ConnectedHasConfig ==
    isConnected => (currentConfig # NullConfig /\ registrationState = "registered")

\* C28: calls are active only while the session is registered.
C28_ActiveOnlyWhileRegistered ==
    activeCalls # <<>> => (isConnected /\ registrationState = "registered")

\* C29: call-ringing, call-connected and call-answered are emitted for a call
\* only before its call-ended event (which follows the push of its history
\* record) and only while the session is registered.
C29_NoProgressAfterEnd ==
    \A i \in 1..Len(emitted) :
        emitted[i].name \in {"call-ringing", "call-connected", "call-answered"} =>
            /\ ~InHistory(emitted[i].id)
            /\ isConnected /\ registrationState = "registered"

\* Nothing is on its way: no message to the renderer is in transit and no
\* handler is suspended at an await.
Quiescent ==
    mainWindow /\ rendererReady /\ toMain = <<>> /\ ipc = <<>> /\ micro = <<>> /\ tasks = EmptyBag

\* C30: in every quiescent state the renderer's currentCall mirrors the
\* service: it is null only if no call is active, and otherwise it names a
\* call of the active set.
C30_CurrentCallMirrors ==
    Quiescent =>
        /\ (currentCall = NoId => activeCalls = <<>>)
        /\ (currentCall # NoId => Has(currentCall))

====
